---- MODULE Spec2Model ----
(***************************************************************************)
(* A model of ratelimit_checker.py: the label formatter, the session-log   *)
(* extractor and locator, the rate-limit window arithmetic and the live    *)
(* dashboard loop.                                                         *)
(*                                                                         *)
(* The pure functions are operators that follow the code's loops; each is  *)
(* applied by one action of a specification whose Init draws the inputs.   *)
(* The dashboard loop is a state machine with one action per step of       *)
(* run_tui.                                                                *)
(***************************************************************************)
EXTENDS Integers, Sequences, FiniteSets, TLC

VARIABLES
    arg,            \* the argument(s) of the function under check
    ret,            \* its result, once called
    called,         \* "none", or the name of the function that was applied
    tpc,            \* run_tui: position of the dashboard
    term,           \* run_tui: terminal mode, "normal" or "curses"
    size,           \* run_tui: the terminal's size now, [rows, cols]
    max_yx,         \* run_tui: max_y, max_x as read before the loop
    keys,           \* run_tui: the keys typed and not yet read by getch
    now,            \* run_tui: the wall clock, time.time()
    current_time,   \* run_tui: the loop's local of that name
    last_refresh,   \* run_tui: the loop's local of that name
    refresh_interval, \* run_tui: its parameter
    data,           \* run_tui: what get_rate_limit_data returned this tick
    tick,           \* run_tui: what this refresh tick has drawn so far, and
                    \* the current_time of the iteration that ran it
    bar,            \* run_tui: the progress-bar row being drawn
    exitCause       \* run_tui: how and where the loop ended

fnVars == <<arg, ret, called>>
tuiVars == <<tpc, term, size, max_yx, keys, now, current_time, last_refresh,
             refresh_interval, data, tick, bar, exitCause>>
vars == <<arg, ret, called, tpc, term, size, max_yx, keys, now, current_time,
          last_refresh, refresh_interval, data, tick, bar, exitCause>>

\* Optional values: Python's None is the empty tuple, a value x is <<x>>.
None == <<>>
Some(x) == <<x>>
IsNone(o) == o = <<>>
Val(o) == o[1]

----------------------------------------------------------------------------
(* Timestamps.  A timestamp string is "absent" (no 'timestamp' key, or an  *)
(* empty string), "garbage" (not ISO-8601) or "iso": a local wall time in  *)
(* hours followed by a zone suffix.                                        *)

NoTs == [form |-> "absent", wall |-> 0, suffix |-> "Z"]
BadTs == [form |-> "garbage", wall |-> 0, suffix |-> "Z"]
Iso(w, s) == [form |-> "iso", wall |-> w, suffix |-> s]

\* timestamp_str.replace('Z', '+00:00')
ReplaceZ(suffix) == IF suffix = "Z" THEN "+00:00" ELSE suffix

\* the UTC offset, in hours, of a normalised zone suffix
UtcOffset(suffix) ==
    CASE suffix = "+00:00" -> 0
      [] suffix = "+01:00" -> 1
      [] suffix = "-01:00" -> 0 - 1

\* datetime.fromisoformat(timestamp_str.replace('Z', '+00:00')) as the instant
\* it denotes (aware datetimes compare by instant); ValueError is None.
FromIsoFormat(ts) ==
    IF ts.form = "iso" THEN Some(ts.wall - UtcOffset(ReplaceZ(ts.suffix)))
    ELSE None

----------------------------------------------------------------------------
(* Log lines and files.                                                    *)
(*   kind "blank":  empty after strip()                                    *)
(*   kind "bad":    json.loads raises JSONDecodeError                      *)
(*   kind "nonobj": json.loads returns a value that is no dict             *)
(*   kind "obj":    a dict; type is its 'type', payload describes its      *)
(*                  'payload' ("token_count"/"other": a dict with that     *)
(*                  'type'; "absent": no such key; "notdict": a value      *)
(*                  that is no dict), ts its 'timestamp'.                  *)

Line(k, t, p, ts) == [kind |-> k, type |-> t, payload |-> p, ts |-> ts]
Blank == Line("blank", "", "absent", NoTs)
Bad == Line("bad", "", "absent", NoTs)
NonObj == Line("nonobj", "", "absent", NoTs)
Rec(ts) == Line("obj", "event_msg", "token_count", ts)

NoFail == 0 - 1
\* failAt = NoFail: readable; 0: open() raises; k > 0: the read raises once
\* k lines have been delivered.
File(n, r, fa, ls) == [name |-> n, rollout |-> r, failAt |-> fa, lines |-> ls]

\* One iteration of the loop over lines (lines 142-162): the new
\* (latest_record, latest_timestamp), or exc when an exception other than
\* JSONDecodeError leaves the inner try.
ProcessLine(line, latest_record, latest_timestamp) ==
    LET keep == [exc |-> FALSE, rec |-> latest_record, ts |-> latest_timestamp]
        raise == [exc |-> TRUE, rec |-> latest_record, ts |-> latest_timestamp]
    IN  IF line.kind \in {"blank", "bad"} THEN keep
        ELSE IF line.kind = "nonobj" THEN raise
        ELSE IF line.type # "event_msg" THEN keep
        ELSE IF line.payload = "notdict" THEN raise
        ELSE IF line.payload # "token_count" THEN keep
        ELSE IF line.ts.form = "absent" THEN keep
        ELSE IF IsNone(FromIsoFormat(line.ts)) THEN raise
        ELSE IF IsNone(latest_timestamp)
                \/ Val(FromIsoFormat(line.ts)) > Val(latest_timestamp)
             THEN [exc |-> FALSE, rec |-> Some(line), ts |-> FromIsoFormat(line.ts)]
             ELSE keep

\* A handler that returned what the scan had found before the failure.
OnFileErrorKeepsFound(latest_record) == latest_record

\* What parse_session_file returns when an exception reaches its outer
\* handler (lines 164-166): None, whatever was found so far.
OnFileError(latest_record) == None

RECURSIVE ScanLines(_, _, _, _)
ScanLines(file, i, latest_record, latest_timestamp) ==
    IF file.failAt = i - 1 THEN OnFileError(latest_record)
    ELSE IF i > Len(file.lines) THEN latest_record
    ELSE LET r == ProcessLine(file.lines[i], latest_record, latest_timestamp)
         IN  IF r.exc THEN OnFileError(latest_record)
             ELSE ScanLines(file, i + 1, r.rec, r.ts)

\* parse_session_file(file_path): the latest token_count record, or None
parse_session_file(file) == ScanLines(file, 1, None, None)

----------------------------------------------------------------------------
(* The locator.  A filesystem maps days_back (0 = today) to a day          *)
(* directory: exists says whether date_path.exists(), files is the order   *)
(* in which the directory's entries are enumerated.                        *)

SearchDays == 30

Dir(fs) == [exists |-> TRUE, files |-> fs]
AbsentDir == [exists |-> FALSE, files |-> <<>>]

IsRollout(f) == f.rollout

\* glob.glob(date_path / "rollout-*.jsonl")
Glob(dir) == SelectSeq(dir.files, IsRollout)

NoLatest == [record |-> None, timestamp |-> None, file |-> None]

\* line 114 with the comparison reversed
OlderWins(timestamp, latest_timestamp) ==
    IsNone(latest_timestamp) \/ timestamp < Val(latest_timestamp)

\* line 114: latest_timestamp is None or timestamp > latest_timestamp
NewerWins(timestamp, latest_timestamp) ==
    IsNone(latest_timestamp) \/ timestamp > Val(latest_timestamp)

\* lines 107-117: the loop over one day's files
RECURSIVE ScanFiles(_, _, _, _)
ScanFiles(day, files, i, latest) ==
    IF i > Len(files) THEN latest
    ELSE LET record == parse_session_file(files[i])
             next ==
                 IF IsNone(record) THEN latest
                 ELSE IF Val(record).ts.form = "absent" THEN latest
                 ELSE LET timestamp == Val(FromIsoFormat(Val(record).ts))
                      IN  IF NewerWins(timestamp, latest.timestamp)
                          THEN [record |-> record,
                                timestamp |-> Some(timestamp),
                                file |-> Some([day |-> day, name |-> files[i].name])]
                          ELSE latest
         IN  ScanFiles(day, files, i + 1, next)

\* lines 97-123: the loop over days_back
RECURSIVE ScanDays(_, _, _)
ScanDays(fs, days_back, latest) ==
    IF days_back >= SearchDays THEN None
    ELSE LET after == IF fs[days_back].exists
                      THEN ScanFiles(days_back, Glob(fs[days_back]), 1, latest)
                      ELSE latest
         IN  IF ~IsNone(after.record)
             THEN Some([file |-> Val(after.file), record |-> Val(after.record)])
             ELSE ScanDays(fs, days_back + 1, after)

\* find_latest_token_count_record(base_path): (file, record) or None
find_latest_token_count_record(fs) == ScanDays(fs, 0, NoLatest)

----------------------------------------------------------------------------
(* The dashboard's variables while a pure function is under check.         *)

NoTick == [drawn |-> {}, done |-> FALSE, at |-> 0]
NoBar == [row |-> 0, next |-> 0, attempted |-> {}, failed |-> {}]
NotExited == [cause |-> "none", at |-> "none"]

TuiIdle ==
    /\ tpc = "idle"
    /\ term = "normal"
    /\ size = [rows |-> 0, cols |-> 0]
    /\ max_yx = [rows |-> 0, cols |-> 0]
    /\ keys = <<>>
    /\ now = 0
    /\ current_time = 0
    /\ last_refresh = 0
    /\ refresh_interval = 0
    /\ data = None
    /\ tick = NoTick
    /\ bar = NoBar
    /\ exitCause = NotExited

\* all sequences over S of length at most n
SeqsUpTo(S, n) == UNION {[1..k -> S] : k \in 0..n}

\* the sequences without a repeated element
Distinct(SS) == {q \in SS : \A i, j \in 1..Len(q) : q[i] = q[j] => i = j}

----------------------------------------------------------------------------
(* SpecParse: parse_session_file applied to every file of at most          *)
(* MaxLines lines.                                                         *)

MaxLines == 3

ParseLines ==
    {Blank, Bad, NonObj,
     Rec(Iso(10, "Z")), Rec(Iso(11, "+01:00")), Rec(Iso(12, "+01:00")),
     Rec(Iso(11, "-01:00")), Rec(NoTs), Rec(BadTs),
     Line("obj", "other", "token_count", Iso(13, "Z")),
     Line("obj", "event_msg", "other", Iso(13, "Z")),
     Line("obj", "event_msg", "absent", Iso(13, "Z")),
     Line("obj", "event_msg", "notdict", Iso(13, "Z")),
     Line("obj", "other", "notdict", Iso(13, "Z"))}

\* the files of at most n lines, failing nowhere, at open() or after any
\* number of their lines
ParseFiles(n) ==
    {f \in {File("rollout-a", TRUE, fa, ls) :
                fa \in NoFail..n, ls \in SeqsUpTo(ParseLines, n)} :
        f.failAt <= Len(f.lines)}

InitParse ==
    /\ arg \in ParseFiles(MaxLines)
    /\ ret = None
    /\ called = "none"
    /\ TuiIdle

CallParse ==
    /\ called = "none"
    /\ ret' = parse_session_file(arg)
    /\ called' = "parse_session_file"
    /\ UNCHANGED <<arg, tuiVars>>

NextParse == CallParse

SpecParse == InitParse /\ [][NextParse]_vars

----------------------------------------------------------------------------
(* SpecLocator: find_latest_token_count_record applied to filesystems      *)
(* with day directories for today, yesterday, the last day of the window   *)
(* and the first day outside it.                                           *)

MaxFiles == 2

LA == File("rollout-a", TRUE, NoFail, <<Rec(Iso(10, "Z"))>>)
LB == File("rollout-b", TRUE, NoFail,
           <<Bad, Rec(Iso(10, "+01:00")), Rec(Iso(8, "Z"))>>)
LC == File("rollout-c", TRUE, 1, <<Rec(Iso(20, "Z")), Blank>>)
LD == File("rollout-d", TRUE, NoFail, <<Rec(Iso(11, "+01:00"))>>)
LE == File("notes-e", FALSE, NoFail, <<Rec(Iso(30, "Z"))>>)
LF == File("rollout-f", TRUE, NoFail, <<Blank, Bad>>)
LG == File("rollout-g", TRUE, 0, <<Rec(Iso(25, "Z"))>>)
LH == File("rollout-h", TRUE, NoFail, <<Rec(Iso(40, "Z"))>>)
LK == File("rollout-k", TRUE, NoFail, <<Rec(Iso(11, "-01:00")), NonObj>>)
LM == File("rollout-m", TRUE, NoFail, <<Rec(Iso(12, "Z"))>>)

\* a day directory: absent, or at most n distinct files in some order
DayDirs(n) ==
    {AbsentDir} \cup {Dir(q) : q \in Distinct(SeqsUpTo({LA, LB, LC, LD, LM}, n))}

NextDayDirs ==
    {AbsentDir, Dir(<<LF>>), Dir(<<LG>>), Dir(<<LE>>), Dir(<<LK>>), Dir(<<LA>>)}

BeyondDirs == {AbsentDir, Dir(<<LH>>)}

FileSystem(d0, d1, dLast, dBeyond) ==
    [d \in 0..SearchDays |->
        CASE d = 0 -> d0
          [] d = 1 -> d1
          [] d = SearchDays - 1 -> dLast
          [] d = SearchDays -> dBeyond
          [] OTHER -> AbsentDir]

InitLocator ==
    /\ arg \in {FileSystem(d0, d1, dLast, dBeyond) :
                   d0 \in DayDirs(MaxFiles), d1 \in NextDayDirs,
                   dLast \in DayDirs(MaxFiles), dBeyond \in BeyondDirs}
    /\ ret = None
    /\ called = "none"
    /\ TuiIdle

CallLocator ==
    /\ called = "none"
    /\ ret' = find_latest_token_count_record(arg)
    /\ called' = "find_latest_token_count_record"
    /\ UNCHANGED <<arg, tuiVars>>

NextLocator == CallLocator

SpecLocator == InitLocator /\ [][NextLocator]_vars

----------------------------------------------------------------------------
(* Claims about the extractor and the locator.                             *)

\* the instant of a record's timestamp, read off the string's parts
InstantOf(line) ==
    CASE line.ts.suffix = "+01:00" -> line.ts.wall - 1
      [] line.ts.suffix = "-01:00" -> line.ts.wall + 1
      [] OTHER -> line.ts.wall

\* type 'event_msg', payload type 'token_count', a timestamp present
Qualifying(line) ==
    /\ line.kind = "obj"
    /\ line.type = "event_msg"
    /\ line.payload = "token_count"
    /\ line.ts.form = "iso"

\* a line that is no structured record: it does not decode, or decodes to
\* something that is no record
Malformed(line) == line.kind \in {"bad", "nonobj"}

\* a decoded record with nothing wrong in the fields the extractor reads
SoundRecord(line) == line.payload # "notdict" /\ line.ts.form # "garbage"

\* the files of day d that the rollout pattern matches
RolloutFiles(fs, d) ==
    {fs[d].files[i] : i \in {j \in 1..Len(fs[d].files) : fs[d].files[j].rollout}}

DayYields(fs, d) ==
    /\ fs[d].exists
    /\ \E f \in RolloutFiles(fs, d) : ~IsNone(parse_session_file(f))

\* C1: the locator returns NotFound exactly when no day of days_back 0..29
\* yields a record; otherwise it returns a file of the first yielding day
\* with that file's record, and no record of that day's rollout files has a
\* later timestamp -- whatever older days hold and in whatever order the
\* day's files are enumerated.
C1_FirstDayLatest ==
    called = "find_latest_token_count_record" =>
        LET yielding == {d \in 0..29 : DayYields(arg, d)}
        IN  IF yielding = {} THEN IsNone(ret)
            ELSE LET first == CHOOSE d \in yielding : \A e \in yielding : d <= e
                 IN  /\ ~IsNone(ret)
                     /\ Val(ret).file.day = first
                     /\ \E f \in RolloutFiles(arg, first) :
                           /\ f.name = Val(ret).file.name
                           /\ parse_session_file(f) = Some(Val(ret).record)
                     /\ \A g \in RolloutFiles(arg, first) :
                           ~IsNone(parse_session_file(g)) =>
                               InstantOf(Val(parse_session_file(g)))
                                   <= InstantOf(Val(ret).record)

\* C1 witness: today's directory holds two yielding files, the second one
\* enumerated is older than the first, the last day of the window holds a
\* newer record still, and the locator has answered.
C1_Witness ==
    /\ called = "find_latest_token_count_record"
    /\ ~IsNone(ret)
    /\ Val(ret).file.day = 0
    /\ Len(arg[0].files) = 2
    /\ Val(ret).file.name = arg[0].files[1].name
    /\ ~IsNone(parse_session_file(arg[0].files[2]))
    /\ InstantOf(Val(parse_session_file(arg[0].files[2]))) < InstantOf(Val(ret).record)
    /\ \E f \in RolloutFiles(arg, 29) :
          /\ ~IsNone(parse_session_file(f))
          /\ InstantOf(Val(parse_session_file(f))) > InstantOf(Val(ret).record)

\* C2: for a readable file whose decoded records are sound, the extractor
\* returns the qualifying line with the latest timestamp (none when the file
\* has no qualifying line), whatever malformed lines the file also holds.
C2_MalformedLinesSkipped ==
    (/\ called = "parse_session_file"
     /\ arg.failAt = NoFail
     /\ \A i \in 1..Len(arg.lines) :
           \/ arg.lines[i].kind = "blank"
           \/ Malformed(arg.lines[i])
           \/ arg.lines[i].kind = "obj" /\ SoundRecord(arg.lines[i]))
    =>
        LET Q == {i \in 1..Len(arg.lines) : Qualifying(arg.lines[i])}
        IN  IF Q = {} THEN IsNone(ret)
            ELSE /\ ~IsNone(ret)
                 /\ \E i \in Q :
                       /\ Val(ret) = arg.lines[i]
                       /\ \A j \in Q : InstantOf(arg.lines[j]) <= InstantOf(arg.lines[i])

\* the filesystem without the files that fail to open or read
WithoutUnreadable(fs) ==
    LET Readable(f) == f.failAt = NoFail
    IN  [d \in DOMAIN fs |->
            [exists |-> fs[d].exists, files |-> SelectSeq(fs[d].files, Readable)]]

UnreadableFiles(fs, d) ==
    {fs[d].files[i] : i \in {j \in 1..Len(fs[d].files) : fs[d].files[j].failAt # NoFail}}

\* C3: a file that fails to open or read yields no record, and the
\* locator's answer is the one it gives on the filesystem without the
\* unreadable files.
C3_UnreadableAsAbsent ==
    called = "find_latest_token_count_record" =>
        /\ \A d \in DOMAIN arg : \A f \in UnreadableFiles(arg, d) :
              IsNone(parse_session_file(f))
        /\ ret = find_latest_token_count_record(WithoutUnreadable(arg))

\* C3 witness: an unreadable file is enumerated first in today's directory,
\* and the locator has answered with a later file of that day; and another
\* run where the only file of yesterday is unreadable and the answer comes
\* from an older day is covered by the same formula.
C3_Witness ==
    /\ called = "find_latest_token_count_record"
    /\ ~IsNone(ret)
    /\ Val(ret).file.day = 0
    /\ Len(arg[0].files) = 2
    /\ arg[0].files[1].failAt # NoFail
    /\ Val(ret).file.name = arg[0].files[2].name

----------------------------------------------------------------------------
(* The rate-limit windows of get_rate_limit_data.  Times are in seconds.   *)
(* A window is None when rate_limits has no (or an empty) entry, else a    *)
(* record of optional fields; time_percent is an exact fraction num/den    *)
(* with den > 0.                                                           *)

Frac(n, d) == [num |-> n, den |-> d]
FracLess(a, b) == a.num * b.den < b.num * a.den

\* dict.get(key, default)
Get(o, default) == IF IsNone(o) THEN default ELSE Val(o)

\* window_minutes defaults of lines 225 and 248
DefaultWindowMinutes(which) == IF which = "primary" THEN 299 ELSE 10079

\* calculate_reset_time(record_timestamp, reset_in_seconds)
calculate_reset_time(record_timestamp, reset_in_seconds, wall_now) ==
    LET reset_time == record_timestamp + reset_in_seconds
    IN  [reset_time |-> reset_time, is_outdated |-> reset_time < wall_now]

\* the value stored without the clamp
NoClamp(time_percent) == time_percent

\* max(0, min(100, time_percent)), lines 238 and 261
Clamp(time_percent) ==
    LET lo == Frac(0, 1)
        hi == Frac(100, 1)
        capped == IF FracLess(hi, time_percent) THEN hi ELSE time_percent
    IN  IF FracLess(capped, lo) THEN lo ELSE capped

\* lines 222-242 (primary) and 245-265 (secondary): data[which], or None
\* when the window is absent
BuildWindow(which, window, record_timestamp, wall_now) ==
    IF IsNone(window) THEN None
    ELSE LET w == Val(window)
             r == calculate_reset_time(record_timestamp,
                                       Get(w.resets_in_seconds, 0), wall_now)
             window_seconds == Get(w.window_minutes, DefaultWindowMinutes(which)) * 60
             resets_in_seconds == Get(w.resets_in_seconds, 0)
             elapsed_seconds == window_seconds - resets_in_seconds
             time_percent ==
                 IF r.is_outdated THEN Frac(100, 1)
                 ELSE IF window_seconds > 0
                      THEN Frac(elapsed_seconds * 100, window_seconds)
                      ELSE Frac(0, 1)
         IN  Some([used_percent |-> Get(w.used_percent, 0),
                   time_percent |-> Clamp(time_percent),
                   reset_time |-> r.reset_time,
                   outdated |-> r.is_outdated,
                   window_minutes |-> Get(w.window_minutes, DefaultWindowMinutes(which))])

----------------------------------------------------------------------------
(* SpecWindow: BuildWindow applied to record times, clocks and windows on  *)
(* a 20-second grid.                                                       *)

MaxTimeSteps == 3
MaxResetSteps == 5

Opt(S) == {None} \cup {Some(x) : x \in S}

WindowInputs ==
    Opt([resets_in_seconds : Opt({20 * i : i \in (0 - MaxResetSteps)..MaxResetSteps}),
         window_minutes : Opt({0 - 1, 0, 1, 2}),
         used_percent : Opt({42})])

InitWindow ==
    /\ arg \in [which : {"primary", "secondary"},
                window : WindowInputs,
                record_timestamp : {20 * i : i \in 0..MaxTimeSteps},
                wall_now : {20 * i : i \in 0..MaxTimeSteps}]
    /\ ret = None
    /\ called = "none"
    /\ TuiIdle

CallWindow ==
    /\ called = "none"
    /\ ret' = BuildWindow(arg.which, arg.window, arg.record_timestamp, arg.wall_now)
    /\ called' = "get_rate_limit_data"
    /\ UNCHANGED <<arg, tuiVars>>

NextWindow == CallWindow

SpecWindow == InitWindow /\ [][NextWindow]_vars

\* C4: for a present window, reset_time = record timestamp + resets_in_seconds
\* and outdated = (reset_time < now); time_percent lies in [0, 100]; it is 100
\* when outdated; otherwise, for a positive window_minutes, it is
\* (window_minutes*60 - resets_in_seconds) / (window_minutes*60) * 100 clamped to
\* [0, 100]; so resets_in_seconds = 0 and not outdated give
\* reset_time = record timestamp and time_percent = 100.
C4_TimePercent ==
    (called = "get_rate_limit_data" /\ ~IsNone(arg.window)) =>
        LET w == Val(arg.window)
            resets == IF IsNone(w.resets_in_seconds) THEN 0 ELSE Val(w.resets_in_seconds)
            minutes == IF ~IsNone(w.window_minutes) THEN Val(w.window_minutes)
                       ELSE IF arg.which = "primary" THEN 299 ELSE 10079
            total == minutes * 60
            elapsed == total - resets
            tp == Val(ret).time_percent
        IN  /\ ~IsNone(ret)
            /\ Val(ret).reset_time = arg.record_timestamp + resets
            /\ Val(ret).outdated = (arg.record_timestamp + resets < arg.wall_now)
            /\ tp.den > 0
            /\ 0 <= tp.num /\ tp.num <= 100 * tp.den
            /\ Val(ret).outdated => tp.num = 100 * tp.den
            /\ (~Val(ret).outdated /\ minutes > 0) =>
                  CASE elapsed <= 0 -> tp.num = 0
                    [] elapsed >= total -> tp.num = 100 * tp.den
                    [] OTHER -> tp.num = elapsed * 100 /\ tp.den = total
            /\ (~Val(ret).outdated /\ minutes > 0 /\ resets = 0) =>
                  /\ Val(ret).reset_time = arg.record_timestamp
                  /\ tp.num = 100 * tp.den

\* C4 witness: a window that is not outdated, with a positive window and
\* more seconds left than the window is long, has been built: the raw ratio
\* is negative and the stored value is 0.
C4_Witness ==
    /\ called = "get_rate_limit_data"
    /\ ~IsNone(ret)
    /\ ~Val(ret).outdated
    /\ Val(ret).window_minutes > 0
    /\ ~IsNone(Val(arg.window).resets_in_seconds)
    /\ Val(Val(arg.window).resets_in_seconds) > Val(ret).window_minutes * 60
    /\ Val(ret).time_percent.num = 0

----------------------------------------------------------------------------
(* The label formatter.  A character is "mark" (a Unicode combining mark), *)
(* "block" (one of the two bar glyphs), "letter" or "space".               *)

Chars == {"mark", "block", "letter", "space"}

\* unicodedata.category(char).startswith('M')
IsMark(char) == char = "mark"

\* get_display_width of one character, lines 60-68
CharWidth(char) ==
    IF char = "block" THEN 1
    ELSE IF IsMark(char) THEN 0
    ELSE 1

\* get_display_width(text)
RECURSIVE get_display_width(_)
get_display_width(text) ==
    IF text = <<>> THEN 0
    ELSE CharWidth(Head(text)) + get_display_width(Tail(text))

\* lines 33-45: the loop over the label's characters
RECURSIVE Truncate(_, _, _, _, _)
Truncate(label, i, current_width, truncated_chars, target_width) ==
    IF i > Len(label)
    THEN [chars |-> truncated_chars, width |-> current_width]
    ELSE LET char_width == get_display_width(<<label[i]>>)
         IN  IF char_width = 0
             THEN Truncate(label, i + 1, current_width,
                           Append(truncated_chars, label[i]), target_width)
             ELSE IF current_width + char_width > target_width
             THEN [chars |-> truncated_chars, width |-> current_width]
             ELSE Truncate(label, i + 1, current_width + char_width,
                           Append(truncated_chars, label[i]), target_width)

\* padding computed from the number of characters kept
PaddingByLength(truncated_chars, current_width, target_width) ==
    IF Len(truncated_chars) < target_width
    THEN [i \in 1..(target_width - Len(truncated_chars)) |-> "space"]
    ELSE <<>>

\* lines 49-50: " " * (target_width - current_width)
Padding(truncated_chars, current_width, target_width) ==
    IF current_width < target_width
    THEN [i \in 1..(target_width - current_width) |-> "space"]
    ELSE <<>>

\* pad_label_to_width(label, target_width)
pad_label_to_width(label, target_width) ==
    LET t == Truncate(label, 1, 0, <<>>, target_width)
    IN  t.chars \o Padding(t.chars, t.width, target_width)

----------------------------------------------------------------------------
(* SpecLabel: pad_label_to_width applied to every label of at most         *)
(* MaxLabelLen characters and every width up to MaxWidth.                  *)

MaxLabelLen == 4
MaxWidth == 3

InitLabel ==
    /\ arg \in [label : SeqsUpTo(Chars, MaxLabelLen), target_width : 0..MaxWidth]
    /\ ret = None
    /\ called = "none"
    /\ TuiIdle

CallLabel ==
    /\ called = "none"
    /\ ret' = pad_label_to_width(arg.label, arg.target_width)
    /\ called' = "pad_label_to_width"
    /\ UNCHANGED <<arg, tuiVars>>

NextLabel == CallLabel

SpecLabel == InitLabel /\ [][NextLabel]_vars

\* the number of characters of text that are no combining marks
Visible(text) == Cardinality({i \in 1..Len(text) : text[i] # "mark"})

\* C9: the formatted label has display width exactly W; it is a prefix of
\* the label followed by spaces only; the prefix is no wider than W, and it
\* stops only in front of a visible character that would not fit, so every
\* zero-width character met before that point is kept.
C9_ExactWidth ==
    called = "pad_label_to_width" =>
        /\ get_display_width(ret) = arg.target_width
        /\ \E k \in 0..Len(arg.label) :
              LET kept == SubSeq(arg.label, 1, k)
              IN  /\ Len(ret) >= k
                  /\ SubSeq(ret, 1, k) = kept
                  /\ \A i \in (k + 1)..Len(ret) : ret[i] = "space"
                  /\ Len(ret) - k = arg.target_width - Visible(kept)
                  /\ Visible(kept) <= arg.target_width
                  /\ k < Len(arg.label) =>
                        (arg.label[k + 1] # "mark" /\ Visible(kept) = arg.target_width)

\* C9 witness: a label with a combining mark among its kept characters and
\* more visible characters than fit has been formatted to a positive width.
C9_Witness ==
    /\ called = "pad_label_to_width"
    /\ arg.target_width > 0
    /\ Visible(arg.label) > arg.target_width
    /\ \E i \in 1..Len(ret) : ret[i] = "mark"

----------------------------------------------------------------------------
(* The live dashboard, run_tui.                                            *)
(*                                                                         *)
(* tpc is the position of the program:                                     *)
(*   "start"     signal handler installed, curses.wrapper not yet entered  *)
(*   "poll"      top of the loop, in getch()                               *)
(*   "discover"  refresh due: in stdscr.clear() / get_rate_limit_data      *)
(*   "nodata1", "nodata2", "toosmall", "header1".."header3", "disperr",    *)
(*   "bar", "footer1".."footer4"   in front of that draw call              *)
(*   "finish"    in front of stdscr.refresh() of line 442                  *)
(*   "sleep"     in time.sleep(0.1)                                        *)
(*   "exited"    run_tui has ended                                         *)
(* A draw call either succeeds or raises curses.error; which is the        *)
(* terminal's choice.  Keys and resizes arrive while getch() waits, clock  *)
(* ticks while it waits or the pipeline scans; the interrupt signal        *)
(* arrives anywhere.                                                       *)

MaxKeys == 2
MaxTicks == 2
MaxInterval == 2

KeyChoices == {"q", "Q", "x"}
QuitKeys == {"q", "Q"}

Size(r, c) == [rows |-> r, cols |-> c]
SizeChoices == {Size(20, 76), Size(19, 76), Size(20, 75)}

\* what get_rate_limit_data can return: None, or data with or without the
\* 'primary' and 'secondary' windows
DataChoices == {None} \cup {Some(d) : d \in [primary : BOOLEAN, secondary : BOOLEAN]}

\* the draw calls of draw_progress_bar's first try block, in order, and the
\* detail line that follows it
BarOps == <<"left_border", "right_border", "clear", "label", "open_bracket",
            "fill", "close_bracket", "percent">>
DetailOp == Len(BarOps) + 1
RowDone == Len(BarOps) + 2

\* the progress-bar rows of a frame, lines 386-415
Rows(d) ==
    (IF d.primary THEN <<"5H SESSION", "5H USAGE">> ELSE <<>>)
    \o (IF d.secondary THEN <<"WEEK TIME", "WEEK USAGE">> ELSE <<>>)

\* curses.wrapper leaving the terminal as it is unless tui_main returns
RestoreOnReturnOnly(cause) == IF cause = "quit" THEN "normal" ELSE "curses"

\* the terminal mode once curses.wrapper(tui_main) is left, lines 453-456:
\* its finally clause runs endwin() on return and on every exception
WrapperUnwind(cause) == "normal"

\* the refresh decided before the key is looked at
RefreshBeforeKey(key, due) ==
    IF due THEN "discover"
    ELSE IF key \in QuitKeys THEN "exited"
    ELSE "sleep"

\* lines 347-352: where the loop goes once getch() has returned key
AfterKey(key, due) ==
    IF key \in QuitKeys THEN "exited"
    ELSE IF due THEN "discover"
    ELSE "sleep"

\* line 369, on the sizes read at line 339
TooSmall(yx) == yx.rows < 20 \/ yx.cols < 76

\* lines 358-374: the first draw call after the discovery
AfterData(d, yx) ==
    IF IsNone(d) THEN "nodata1"
    ELSE IF TooSmall(yx) THEN "toosmall"
    ELSE "header1"

\* line 383-415, 417: what follows the header, and each finished row
AfterRow(d, row) == IF row < Len(Rows(d)) THEN "bar" ELSE "footer1"

\* tui_main is left: its locals are gone, the wrapper unwinds
Exit(cause) ==
    /\ tpc' = "exited"
    /\ term' = WrapperUnwind(cause)
    /\ exitCause' = [cause |-> cause, at |-> tpc]
    /\ max_yx' = Size(0, 0)
    /\ current_time' = 0
    /\ last_refresh' = 0
    /\ data' = None
    /\ bar' = NoBar

Draws(what) == tick' = [tick EXCEPT !.drawn = @ \cup {what}]

InitTui ==
    /\ arg = None
    /\ ret = None
    /\ called = "none"
    /\ tpc = "start"
    /\ term = "normal"
    /\ size \in SizeChoices
    /\ max_yx = Size(0, 0)
    /\ keys = <<>>
    /\ now = MaxInterval
    /\ current_time = 0
    /\ last_refresh = 0
    /\ refresh_interval \in 1..MaxInterval
    /\ data = None
    /\ tick = NoTick
    /\ bar = NoBar
    /\ exitCause = NotExited

\* lines 451-341: curses.wrapper acquires the terminal, tui_main reads the
\* size once and sets last_refresh = 0
Start ==
    /\ tpc = "start"
    /\ term' = "curses"
    /\ max_yx' = size
    /\ last_refresh' = 0
    /\ tpc' = "poll"
    /\ UNCHANGED <<fnVars, size, keys, now, current_time, refresh_interval,
                   data, tick, bar, exitCause>>

\* lines 344-352: current_time = time.time(); key = getch(); quit, refresh
\* or sleep
Poll ==
    /\ tpc = "poll"
    /\ LET key == IF keys = <<>> THEN "none" ELSE Head(keys)
           to == AfterKey(key, now - last_refresh >= refresh_interval)
       IN  /\ keys' = IF keys = <<>> THEN keys ELSE Tail(keys)
           /\ IF to = "exited"
              THEN Exit("quit")
              ELSE /\ tpc' = to
                   /\ current_time' = now
                   /\ UNCHANGED <<term, exitCause, max_yx, last_refresh, data, bar>>
    /\ UNCHANGED <<fnVars, size, now, refresh_interval, tick>>

\* lines 353-372: stdscr.clear(), the pipeline's answer, and the branch
\* taken; the tick that starts here belongs to the iteration whose
\* time.time() reading (line 344) is current_time
Discover ==
    /\ tpc = "discover"
    /\ \E d \in DataChoices :
          /\ data' = d
          /\ tpc' = AfterData(d, max_yx)
    /\ tick' = [drawn |-> {}, done |-> FALSE, at |-> current_time]
    /\ bar' = NoBar
    /\ UNCHANGED <<fnVars, term, size, max_yx, keys, now, current_time,
                   last_refresh, refresh_interval, exitCause>>

\* lines 207-218: a matched record without 'info' or its usage maps raises
\* KeyError, which nothing in run_tui catches
DiscoverRaises ==
    /\ tpc = "discover"
    /\ Exit("pipeline_error")
    /\ UNCHANGED <<fnVars, size, keys, now, refresh_interval, tick>>

\* lines 359-360: the two addstr of the 'no data' message, outside any try
NoDataNotice ==
    /\ tpc \in {"nodata1", "nodata2"}
    /\ \E ok \in BOOLEAN :
          IF ok
          THEN /\ tpc' = IF tpc = "nodata1" THEN "nodata2" ELSE "finish"
               /\ Draws("no_data")
               /\ UNCHANGED <<term, exitCause, max_yx, current_time, last_refresh,
                              data, bar>>
          ELSE Exit("draw_error") /\ UNCHANGED tick
    /\ UNCHANGED <<fnVars, size, keys, now, refresh_interval>>

\* lines 370-372: the notice, stdscr.refresh() and continue
TooSmallNotice ==
    /\ tpc = "toosmall"
    /\ \E ok \in BOOLEAN :
          IF ok
          THEN /\ tpc' = "poll"
               /\ tick' = [tick EXCEPT !.drawn = @ \cup {"too_small"}, !.done = TRUE]
               /\ UNCHANGED <<term, exitCause, max_yx, current_time, last_refresh,
                              data, bar>>
          ELSE Exit("draw_error") /\ UNCHANGED tick
    /\ UNCHANGED <<fnVars, size, keys, now, refresh_interval>>

\* lines 374-378: the three header lines, in one try
Header ==
    /\ tpc \in {"header1", "header2", "header3"}
    /\ \E ok \in BOOLEAN :
          IF ok
          THEN /\ Draws("panel")
               /\ tpc' = CASE tpc = "header1" -> "header2"
                           [] tpc = "header2" -> "header3"
                           [] OTHER -> AfterRow(Val(data), 0)
               /\ bar' = IF tpc = "header3" /\ AfterRow(Val(data), 0) = "bar"
                         THEN [row |-> 1, next |-> 1, attempted |-> {}, failed |-> {}]
                         ELSE bar
          ELSE tpc' = "disperr" /\ UNCHANGED <<tick, bar>>
    /\ UNCHANGED <<fnVars, term, size, max_yx, keys, now, current_time,
                   last_refresh, refresh_interval, data, exitCause>>

\* lines 379-381: the handler's own notice, stdscr.refresh() and continue
DisplayErrorNotice ==
    /\ tpc = "disperr"
    /\ \E ok \in BOOLEAN :
          IF ok
          THEN /\ tpc' = "poll"
               /\ tick' = [tick EXCEPT !.drawn = @ \cup {"display_error"}, !.done = TRUE]
               /\ UNCHANGED <<term, exitCause, max_yx, current_time, last_refresh,
                              data, bar>>
          ELSE Exit("draw_error") /\ UNCHANGED tick
    /\ UNCHANGED <<fnVars, size, keys, now, refresh_interval>>

\* lines 275-309: one draw call of the row's try block; curses.error leaves
\* the block
BarOp ==
    /\ tpc = "bar"
    /\ bar.next \in 1..Len(BarOps)
    /\ \E ok \in BOOLEAN :
          /\ bar' = [bar EXCEPT
                       !.attempted = @ \cup {BarOps[bar.next]},
                       !.failed = IF ok THEN @ ELSE @ \cup {BarOps[bar.next]},
                       !.next = IF ok THEN bar.next + 1 ELSE DetailOp]
          /\ IF ok THEN Draws("panel") ELSE UNCHANGED tick
    /\ UNCHANGED <<fnVars, tpc, term, size, max_yx, keys, now, current_time,
                   last_refresh, refresh_interval, data, exitCause>>

\* lines 312-326: the detail line, in a try of its own
BarDetail ==
    /\ tpc = "bar"
    /\ bar.next = DetailOp
    /\ \E ok \in BOOLEAN :
          /\ bar' = [bar EXCEPT
                       !.attempted = @ \cup {"detail"},
                       !.failed = IF ok THEN @ ELSE @ \cup {"detail"},
                       !.next = RowDone]
          /\ IF ok THEN Draws("panel") ELSE UNCHANGED tick
    /\ UNCHANGED <<fnVars, tpc, term, size, max_yx, keys, now, current_time,
                   last_refresh, refresh_interval, data, exitCause>>

\* y_pos += 2 and the next draw_progress_bar call, or the footer
NextRow ==
    /\ tpc = "bar"
    /\ bar.next = RowDone
    /\ tpc' = AfterRow(Val(data), bar.row)
    /\ bar' = IF AfterRow(Val(data), bar.row) = "bar"
              THEN [row |-> bar.row + 1, next |-> 1, attempted |-> {}, failed |-> {}]
              ELSE NoBar
    /\ UNCHANGED <<fnVars, term, size, max_yx, keys, now, current_time,
                   last_refresh, refresh_interval, data, tick, exitCause>>

\* lines 418-440: the four footer lines, in one try
Footer ==
    /\ tpc \in {"footer1", "footer2", "footer3", "footer4"}
    /\ \E ok \in BOOLEAN :
          IF ok
          THEN /\ Draws("panel")
               /\ tpc' = CASE tpc = "footer1" -> "footer2"
                           [] tpc = "footer2" -> "footer3"
                           [] tpc = "footer3" -> "footer4"
                           [] OTHER -> "finish"
          ELSE tpc' = "finish" /\ UNCHANGED tick
    /\ UNCHANGED <<fnVars, term, size, max_yx, keys, now, current_time,
                   last_refresh, refresh_interval, data, bar, exitCause>>

\* lines 442-443: stdscr.refresh(); last_refresh = current_time
Finish ==
    /\ tpc = "finish"
    /\ last_refresh' = current_time
    /\ tick' = [tick EXCEPT !.done = TRUE]
    /\ tpc' = "sleep"
    /\ UNCHANGED <<fnVars, term, size, max_yx, keys, now, current_time,
                   refresh_interval, data, bar, exitCause>>

\* line 445: time.sleep(0.1), then the top of the loop
Sleep ==
    /\ tpc = "sleep"
    /\ tpc' = "poll"
    /\ UNCHANGED <<fnVars, term, size, max_yx, keys, now, current_time,
                   last_refresh, refresh_interval, data, tick, bar, exitCause>>

\* lines 448-451: SIGINT runs signal_handler, sys.exit(0) raises SystemExit
\* wherever the program is; before the wrapper there is nothing to restore
Interrupt ==
    /\ tpc # "exited"
    /\ IF tpc = "start"
       THEN /\ tpc' = "exited"
            /\ exitCause' = [cause |-> "sigint", at |-> tpc]
            /\ UNCHANGED <<term, max_yx, current_time, last_refresh, data, bar>>
       ELSE Exit("sigint")
    /\ UNCHANGED <<fnVars, size, keys, now, refresh_interval, tick>>

\* the user types a key; a key typed while the program scans, draws or
\* sleeps waits in the input queue until getch() is next called, as if typed
\* then
KeyPress ==
    /\ tpc = "poll"
    /\ Len(keys) < MaxKeys
    /\ \E k \in KeyChoices : keys' = Append(keys, k)
    /\ UNCHANGED <<fnVars, tpc, term, size, max_yx, now, current_time,
                   last_refresh, refresh_interval, data, tick, bar, exitCause>>

\* the wall clock advances while getch() waits or the pipeline scans
Tick ==
    /\ tpc \in {"poll", "discover"}
    /\ now < MaxInterval + MaxTicks
    /\ now' = now + 1
    /\ UNCHANGED <<fnVars, tpc, term, size, max_yx, keys, current_time,
                   last_refresh, refresh_interval, data, tick, bar, exitCause>>

\* the terminal is resized between two refresh ticks
Resize ==
    /\ tpc = "poll"
    /\ \E sz \in SizeChoices \ {size} : size' = sz
    /\ UNCHANGED <<fnVars, tpc, term, max_yx, keys, now, current_time,
                   last_refresh, refresh_interval, data, tick, bar, exitCause>>

NextTui ==
    \/ Start \/ Poll \/ Discover \/ DiscoverRaises \/ NoDataNotice
    \/ TooSmallNotice \/ Header \/ DisplayErrorNotice \/ BarOp \/ BarDetail
    \/ NextRow \/ Footer \/ Finish \/ Sleep \/ Interrupt \/ KeyPress \/ Tick
    \/ Resize

SpecTui == InitTui /\ [][NextTui]_vars

----------------------------------------------------------------------------
(* Claims about the dashboard.                                             *)

\* C5: a refresh tick that completes while the terminal is narrower than 76
\* columns or shorter than 20 rows has drawn no part of the panel.  (Stated
\* for the ticks that found data, the only ones that can draw a panel; the
\* terminal is resized only between ticks, so size is the size at that tick.)
C5_NoPanelWhenTooSmall ==
    [][(~tick.done /\ tick'.done /\ ~IsNone(data) /\ TooSmall(size))
          => "panel" \notin tick'.drawn]_vars

\* C6: no terminal size and no failed draw call ends the loop: the program
\* is Exited only by the quit key or the interrupt signal (a failure of the
\* discovery pipeline itself set aside).
C6_OnlyQuitOrInterrupt ==
    (tpc = "exited" /\ exitCause.cause # "pipeline_error")
        => exitCause.cause \in {"quit", "sigint"}

\* C7: the terminal is in dashboard mode exactly while tui_main runs, and
\* is back in its prior mode whenever run_tui has ended, however it ended.
C7_TerminalRestored ==
    /\ tpc = "exited" => term = "normal"
    /\ tpc \notin {"idle", "start", "exited"} => term = "curses"

\* C7 witness: the interrupt arrived in the middle of a refresh, between two
\* draw calls of a progress-bar row, and run_tui has ended.
C7_Witness ==
    /\ tpc = "exited"
    /\ exitCause = [cause |-> "sigint", at |-> "bar"]
    /\ term = "normal"

QuitAtHead == keys # <<>> /\ Head(keys) \in QuitKeys

\* C8: a discovery starts only straight from a key poll that did not
\* deliver a quit key, so the keyboard is read in every iteration, before
\* the refresh decision; and a key poll that delivers 'q' or 'Q' ends the
\* loop there, drawing nothing more, whether or not a refresh is due and
\* whatever the previous iteration drew.
C8_QuitAtNextPoll ==
    [][/\ (tpc # "discover" /\ tpc' = "discover") => (tpc = "poll" /\ ~QuitAtHead)
       /\ (tpc = "poll" /\ QuitAtHead /\ tpc' # "poll")
             => (tpc' = "exited" /\ tick' = tick)]_vars

\* C8 witness: with the longest refresh interval, the iteration before took
\* the 'terminal too small' branch (which skips the sleep and leaves a
\* refresh due), and the next key poll has ended the loop on a quit key.
C8_Witness ==
    /\ tpc = "exited"
    /\ exitCause = [cause |-> "quit", at |-> "poll"]
    /\ refresh_interval = MaxInterval
    /\ tick.drawn = {"too_small"}
    /\ tick.done

AllBarOps == {BarOps[i] : i \in 1..Len(BarOps)} \cup {"detail"}

\* C10: when a progress-bar row is finished, every draw operation of the
\* row has been attempted, whether or not an earlier one failed.
C10_EveryDrawAttempted ==
    (tpc = "bar" /\ bar.next = RowDone) => bar.attempted = AllBarOps

\* C11: the first loop iteration refreshes (unless it reads a quit key),
\* and once a refresh has completed, whatever it rendered, the next run of
\* get_rate_limit_data starts only when the wall clock is at least
\* refresh_interval seconds past the time.time() reading of the iteration
\* that made that refresh.
C11_RefreshCadence ==
    [][/\ (tpc = "poll" /\ current_time = 0 /\ tpc' \notin {"poll", "exited"})
             => tpc' = "discover"
       /\ (tpc = "poll" /\ tpc' = "discover" /\ tick.done)
             => now - tick.at >= refresh_interval]_vars

====
